---- MODULE Spec2Model ----
(***************************************************************************)
(* State-machine model of the deferred renderer: the light registry        *)
(* (LightManager), the per-light shadow-map slots (Renderer::shadowMaps),  *)
(* the per-frame pipeline of Renderer::render and the frame statistics.    *)
(*                                                                         *)
(* Indices are 0-based as in the C++ code; the registry is a TLA+ sequence *)
(* so light i of the code is lights[i + 1].                                *)
(***************************************************************************)
EXTENDS Integers, Sequences, FiniteSets, TLC

(***************************************************************************)
(* Program constants.                                                      *)
(***************************************************************************)
MAX_LIGHTS == 32
MAX_SHADOW_CASTING_LIGHTS == 8
DefaultShadowMapSize == 2048
DefaultCubeShadowMapSize == 1024

(***************************************************************************)
(* Bounds of the model.                                                    *)
(***************************************************************************)
\* UI / API mutations of lights and shadow parameters per behaviour of Spec.
MaxUiOps == 1
\* Registry mutations other than "Add Point Light" per behaviour of SpecRegistry.
MaxRegOps == 1
\* Shader programs or models whose load fails at startup (SpecEnv).
MaxFailedAssets == 1
\* Shadow-slot GPU allocations that fail in one reconciliation (SpecEnv).
MaxAllocFailures == 1
\* Vertices of every successfully loaded model.
VertsPerModel == 3
\* GUI mutations of lights per behaviour of SpecLightEdit.
MaxFieldOps == 2
\* Last preset slot kept (SpecPreset).
MaxPresetSlot == 0
\* Parameter edits and preset-file edits per behaviour of SpecPreset.
MaxPresetOps == 2
\* Steps of the shadow-intensity slider between 0.0 and 1.0 (SpecShader).
IntensityLevels == 4
\* Largest "PCF Kernel Size" drawn (SpecShader).
MaxPCFSamples == 1
\* Steps of a colour channel or an edge intensity between 0.0 and 1.0.
ColourLevels == 2
\* Largest number of quantization bands drawn (SpecShader).
MaxBands == 5

LightTypes == {"DIRECTIONAL", "POINT", "SPOT"}
Slots == 0 .. (MAX_SHADOW_CASTING_LIGHTS - 1)
\* Resolutions offered by the shadow window of the GUI (a subset of them).
DirSizes == {1024, 2048}
CubeSizes == {1024, 2048}

Min(a, b) == IF a < b THEN a ELSE b

(***************************************************************************)
(* Vectors.  A direction is kept as an integer vector v (components in     *)
(* slider units, 1 = 1.0f) and a flag: unit = TRUE means the stored value  *)
(* is v * inversesqrt(dot(v, v)), the result of glm::normalize; unit =     *)
(* FALSE means the stored value is v itself.                               *)
(***************************************************************************)
NaN == -1

Dot(a, b) == a[1] * b[1] + a[2] * b[2] + a[3] * b[3]

normalize(v) == [v |-> v, unit |-> TRUE]

\* dot(d, d) of a stored direction; normalize of the zero vector is 0 * inf.
LengthSq(d) ==
    IF d.unit THEN (IF Dot(d.v, d.v) = 0 THEN NaN ELSE 1) ELSE Dot(d.v, d.v)

(***************************************************************************)
(* Light and its factories.  The fields kept are the ones that drive the   *)
(* shadow slots (type, castShadows, isStatic), the direction, the spot     *)
(* cone and the fields of the flicker (intensity, flicker, baseIntensity;  *)
(* color and baseColor are written where intensity and baseIntensity are). *)
(* cutOff and outerCutOff are in tenths (125 = 12.5f), intensities in      *)
(* hundredths (100 = 1.0f).                                                *)
(***************************************************************************)
One == 10
DefaultCutOff == 125
DefaultOuterCutOff == 150

Light == [type |-> "POINT", castShadows |-> TRUE, isStatic |-> FALSE,
          direction |-> [v |-> <<0, -1, 0>>, unit |-> FALSE],
          cutOff |-> DefaultCutOff, outerCutOff |-> DefaultOuterCutOff,
          intensity |-> 100, flicker |-> FALSE, baseIntensity |-> 100]

\* The factories with the arguments their callers pass: direction
\* (0, -1, 0) and, for the spot light, cutOff 12.5f and outerCutOff 15.0f.
createDirectionalLight ==
    [Light EXCEPT !.type = "DIRECTIONAL", !.direction = normalize(<<0, -1, 0>>),
                  !.castShadows = TRUE]

createPointLight == [Light EXCEPT !.type = "POINT"]

createSpotLight ==
    [Light EXCEPT !.type = "SPOT", !.direction = normalize(<<0, -1, 0>>),
                  !.cutOff = DefaultCutOff, !.outerCutOff = DefaultOuterCutOff]

createLight(t) ==
    CASE t = "DIRECTIONAL" -> createDirectionalLight
      [] t = "POINT" -> createPointLight
      [] OTHER -> createSpotLight

\* Values the "Direction" sliders are dragged to, per component.
DirValues == {-1, 0, 1}
\* Values the "Cut Off" / "Outer Cut Off" sliders are dragged to (range 1..45).
CutOffValues == {10, DefaultCutOff, DefaultOuterCutOff, 450}

(***************************************************************************)
(* Readers of the spot cone.  Angles are in tenths of a degree, cosines in *)
(* tenths.                                                                 *)
(***************************************************************************)
\* glm::degrees(acos(x)): NaN outside [-1, 1]; exact at -1, 0 and 1 and
\* the chord between them elsewhere.
acosDegrees(x) == IF x > One \/ x < -One THEN NaN ELSE 900 - 90 * x

\* renderSpotShadow: float spotAngle = glm::degrees(acos(light.cutOff)) * 2.0f.
renderSpotShadowAngle(light) ==
    IF acosDegrees(light.cutOff) = NaN THEN NaN ELSE 2 * acosDegrees(light.cutOff)

\* The fragment shader's cone falloff for a fragment whose direction from
\* the light makes cosine theta with the light's axis:
\* clamp((theta - outerCutOff) / (cutOff - outerCutOff), 0.0, 1.0).
spotIntensity(light, theta) ==
    LET epsilon == light.cutOff - light.outerCutOff
        num == theta - light.outerCutOff
    IN  IF epsilon = 0
        THEN (IF num > 0 THEN One ELSE IF num < 0 THEN 0 ELSE NaN)
        ELSE IF (num >= 0) # (epsilon > 0) \/ num = 0 THEN 0
        ELSE IF (IF epsilon > 0 THEN num >= epsilon ELSE num <= epsilon) THEN One
        ELSE (num * One) \div epsilon

(***************************************************************************)
(* LightManager.                                                           *)
(***************************************************************************)
addLight_mutNoCap(ls, light) == Append(ls, light)

addLight(ls, light) ==
    IF Len(ls) < MAX_LIGHTS THEN Append(ls, light) ELSE ls

removeLight_mutSwapLast(ls, index) ==
    IF index < Len(ls)
    THEN [j \in 1 .. (Len(ls) - 1) |-> IF j = index + 1 THEN ls[Len(ls)] ELSE ls[j]]
    ELSE ls

removeLight(ls, index) ==
    IF index < Len(ls)
    THEN [j \in 1 .. (Len(ls) - 1) |-> IF j <= index THEN ls[j] ELSE ls[j + 1]]
    ELSE ls

updateLight_mutClamp(ls, index, light) ==
    IF Len(ls) = 0 THEN ls
    ELSE [ls EXCEPT ![Min(index + 1, Len(ls))] = light]

updateLight(ls, index, light) ==
    IF index < Len(ls) THEN [ls EXCEPT ![index + 1] = light] ELSE ls

clearLights(ls) == << >>

\* Renderer::initializeLights: sun, moon and six static torches.
Sun == [createDirectionalLight EXCEPT !.castShadows = TRUE, !.isStatic = FALSE,
                                      !.flicker = FALSE]
Moon == [createDirectionalLight EXCEPT !.direction = normalize(<<0, 1, 0>>),
                                       !.castShadows = TRUE, !.isStatic = FALSE,
                                       !.flicker = FALSE]
Torch == [createPointLight EXCEPT !.castShadows = TRUE, !.isStatic = TRUE,
                                  !.flicker = TRUE]

initializeLights(ls) ==
    LET l0 == clearLights(ls)
        l1 == addLight(l0, Sun)
        l2 == addLight(l1, Moon)
        l3 == addLight(l2, Torch)
        l4 == addLight(l3, Torch)
        l5 == addLight(l4, Torch)
        l6 == addLight(l5, Torch)
        l7 == addLight(l6, Torch)
    IN  addLight(l7, Torch)

(***************************************************************************)
(* Shader programs and models.                                             *)
(***************************************************************************)
Shaders == {"geometry", "hybridCel", "edgeDetection", "composite",
            "shadowMap", "pointShadow"}

\* The four programs built in the outer try block, in construction order.
MainShaders == <<"geometry", "hybridCel", "edgeDetection", "composite">>

Models == {"floorTile", "wall", "torch"}

\* The (drawable, transform) list walked by renderScene and by geometryPass,
\* reduced to the model each entry references.
Scene == <<"floorTile", "floorTile", "wall", "torch">>

VARIABLES
    lights,         \* LightManager::lights
    shadowMaps,     \* Renderer::shadowMaps, one ShadowMapData per slot
    shadowParams,   \* Renderer::shadowParams
    dayPhase,       \* where updateLights' static totalTime is in the day/night cycle
    stats,          \* Renderer::stats
    pc,             \* position inside Renderer::render ("idle" = between frames)
    linked,         \* GPU side: the program of each shader compiled and linked
    shaderSet,      \* the unique_ptr<Shader> members: TRUE = non-null
    loaded,         \* asset side: the file of each model could be imported
    modelSet,       \* the unique_ptr<Model> members: TRUE = non-null
    incomplete,     \* GPU side: slots whose latest allocation failed
    allocated,      \* slots (re)allocated by the latest updateShadowMaps
    cleaned,        \* slots torn down by the latest updateShadowMaps
    rendered,       \* slots rendered by this frame's shadowMapPass
    hadRendered,    \* slots with hasRendered = TRUE when this frame began
    drawn,          \* passes that issued their draws in this frame
    geomDraws,      \* renderModel calls of this frame's geometry pass that drew
    geomVerts,      \* vertices submitted by this frame's geometry pass
    failedDraws,    \* stats.drawCalls increments made for models that failed to load
    lastOp,         \* the latest UI / API mutation since the last frame ended
    opsSinceFrame,  \* UI / API mutations since the last frame ended: 0, 1, 2 = several
    uiOps,          \* number of budgeted mutations made so far
    params,         \* the material and edge parameters of the Renderer
    presetFiles,    \* disk: the preset_<k>.json files
    savedAt,        \* the parameters in memory when savePreset last wrote each file
    shaderCall,     \* GPU: the inputs of the fragment-shader function under study
    shaderResult,   \* GPU: what that function returned
    uniforms        \* GPU: the light uniforms of hybridCelShader as last uploaded

vars == <<lights, shadowMaps, shadowParams, dayPhase, stats, pc, linked,
          shaderSet, loaded, modelSet, incomplete, allocated, cleaned,
          rendered, hadRendered, drawn, geomDraws, geomVerts, failedDraws,
          lastOp, opsSinceFrame, uiOps, params, presetFiles, savedAt,
          shaderCall, shaderResult, uniforms>>

presetVars == <<params, presetFiles, savedAt>>
shaderVars == <<shaderCall, shaderResult>>

(***************************************************************************)
(* Startup: initializeShaders and loadModels.                              *)
(***************************************************************************)
\* Shader::Shader only logs a failed compile or link (checkCompileErrors) and
\* loadShaderSource swallows read errors: the constructor never throws.
ShaderCtorThrows(ok) == FALSE

\* Model::loadModel prints the importer error and returns: no throw either.
ModelCtorThrows(ok) == FALSE

\* initializeShaders: a throw among the first four leaves every later
\* pointer unset (outer try); the two shadow programs have their own try.
initializeShaders(ok) ==
    LET firstThrow ==
            IF \E k \in 1 .. 4 : ShaderCtorThrows(ok[MainShaders[k]])
            THEN CHOOSE k \in 1 .. 4 :
                    /\ ShaderCtorThrows(ok[MainShaders[k]])
                    /\ \A j \in 1 .. (k - 1) : ~ShaderCtorThrows(ok[MainShaders[j]])
            ELSE 5
    IN  [s \in Shaders |->
            IF \E k \in 1 .. 4 : MainShaders[k] = s
            THEN \E k \in 1 .. 4 : MainShaders[k] = s /\ k < firstThrow
            ELSE firstThrow = 5 /\ ~ShaderCtorThrows(ok[s])]

\* loadModels: every make_unique<Model> sits in its own try / catch.
loadModels(ok) == [m \in Models |-> ~ModelCtorThrows(ok[m])]

(***************************************************************************)
(* Shadow slots.                                                           *)
(***************************************************************************)
\* ShadowMapData as value-initialised by shadowMaps.resize().
ShadowMapData ==
    [FBO |-> 0, depthMap |-> 0, depthCubemap |-> 0, isActive |-> FALSE,
     type |-> "DIRECTIONAL", size |-> 0, hasRendered |-> FALSE]

initializeShadowMapping == [i \in Slots |-> ShadowMapData]

cleanupShadowMap_mutKeepCube(sd) ==
    [sd EXCEPT !.FBO = 0, !.depthMap = 0, !.isActive = FALSE, !.hasRendered = FALSE]

cleanupShadowMap_mutKeepRendered(sd) ==
    [sd EXCEPT !.FBO = 0, !.depthMap = 0, !.depthCubemap = 0, !.isActive = FALSE]

cleanupShadowMap(sd) ==
    [sd EXCEPT !.FBO = 0, !.depthMap = 0, !.depthCubemap = 0,
               !.isActive = FALSE, !.hasRendered = FALSE]

\* glGenFramebuffers / glGenTextures hand out an unused name; the smallest
\* one of the pool left to the shadow slots.
GenName(used) ==
    CHOOSE n \in 1 .. (Cardinality(used) + 1) :
        n \notin used /\ \A m \in 1 .. (n - 1) : m \in used

UsedFBOs(maps) == {maps[j].FBO : j \in Slots} \ {0}

UsedTextures(maps) ==
    ({maps[j].depthMap : j \in Slots} \cup {maps[j].depthCubemap : j \in Slots}) \ {0}

requiredSize_mutAlways2D(light, sp) == sp.shadowMapSize

requiredSize(light, sp) ==
    IF light.type = "POINT" THEN sp.cubeShadowMapSize ELSE sp.shadowMapSize

needsReallocation_mutNoCastCheck(sd, light, req) ==
    ~sd.isActive \/ sd.type # light.type \/ sd.size # req

needsReallocation_mutUnrendered(sd, light, req) ==
    ~sd.isActive \/ sd.type # light.type \/ sd.size # req \/ ~light.castShadows
        \/ ~sd.hasRendered

needsReallocation(sd, light, req) ==
    \/ ~sd.isActive
    \/ sd.type # light.type
    \/ sd.size # req
    \/ ~light.castShadows

\* Body of the first loop of updateShadowMaps for slot i (i < lightCount).
\* acc = [maps, allocated, cleaned, incomplete]; fail = the slots whose GPU
\* allocation fails in this call.
updateSlot(i, light, sp, fail, acc) ==
    LET sd == acc.maps[i]
        req == requiredSize(light, sp)
    IN
    IF ~needsReallocation(sd, light, req) THEN acc
    ELSE
      LET c == IF sd.isActive THEN cleanupShadowMap(sd) ELSE sd
          acc1 == [acc EXCEPT
                     !.maps[i] = c,
                     !.cleaned = IF sd.isActive THEN @ \cup {i} ELSE @,
                     !.incomplete = IF sd.isActive THEN @ \ {i} ELSE @]
      IN
      IF ~light.castShadows THEN acc1
      ELSE
        LET fbo == GenName(UsedFBOs(acc1.maps))
            tex == GenName(UsedTextures(acc1.maps))
            withTex == IF light.type = "POINT"
                       THEN [c EXCEPT !.FBO = fbo, !.depthCubemap = tex]
                       ELSE [c EXCEPT !.FBO = fbo, !.depthMap = tex]
        IN  [acc1 EXCEPT
               !.maps[i] = [withTex EXCEPT !.type = light.type, !.size = req,
                                           !.isActive = TRUE],
               !.allocated = @ \cup {i},
               !.incomplete = IF i \in fail THEN @ \cup {i} ELSE @ \ {i}]

removeUnused_mutKeep(i, acc) == acc

\* Body of the second loop of updateShadowMaps for slot i (i >= lightCount).
removeUnused(i, acc) ==
    IF acc.maps[i].isActive
    THEN [acc EXCEPT !.maps[i] = cleanupShadowMap(@),
                     !.cleaned = @ \cup {i},
                     !.incomplete = @ \ {i}]
    ELSE acc

RECURSIVE updateShadowMapsFrom(_, _, _, _, _)
updateShadowMapsFrom(i, ls, sp, fail, acc) ==
    IF i >= MAX_SHADOW_CASTING_LIGHTS THEN acc
    ELSE updateShadowMapsFrom(i + 1, ls, sp, fail,
            IF i < Min(Len(ls), MAX_SHADOW_CASTING_LIGHTS)
            THEN updateSlot(i, ls[i + 1], sp, fail, acc)
            ELSE removeUnused(i, acc))

updateShadowMaps(ls, sp, maps, inc, fail) ==
    updateShadowMapsFrom(0, ls, sp, fail,
        [maps |-> maps, allocated |-> {}, cleaned |-> {}, incomplete |-> inc])

(***************************************************************************)
(* Drawing and the frame statistics.                                       *)
(***************************************************************************)
\* Model::getVertexCount: a model whose import failed has no meshes.
getVertexCount(m) == IF loaded[m] THEN VertsPerModel ELSE 0

\* Renderer::renderModel: null checks, draw, then the statistics.
renderModel(m, shader, st) ==
    IF ~modelSet[m] \/ ~shaderSet[shader] THEN st
    ELSE [drawCalls |-> st.drawCalls + 1,
          vertexCount |-> st.vertexCount + getVertexCount(m)]

RECURSIVE renderSceneFrom(_, _, _)
renderSceneFrom(k, shader, st) ==
    IF k > Len(Scene) THEN st
    ELSE renderSceneFrom(k + 1, shader, renderModel(Scene[k], shader, st))

\* Renderer::renderScene (floor, walls, decorations) with the given program.
renderScene(shader, st) == renderSceneFrom(1, shader, st)

\* renderModel calls of one scene walk that get past the null checks for a
\* model whose import failed.
FailedDrawsOf(shader) ==
    Cardinality({k \in 1 .. Len(Scene) :
        modelSet[Scene[k]] /\ shaderSet[shader] /\ ~loaded[Scene[k]]})

\* The program renderShadowMapForLight dispatches to.
ShadowShaderOf(type) == IF type = "POINT" THEN "pointShadow" ELSE "shadowMap"

\* "Skip static lights that have already been rendered".
skipsStatic(light, sd) == light.isStatic /\ sd.hasRendered

\* Loop of shadowMapPass; acc = [maps, rendered, stats].
RECURSIVE shadowMapPassFrom(_, _, _)
shadowMapPassFrom(i, ls, acc) ==
    IF i >= Min(Len(ls), MAX_SHADOW_CASTING_LIGHTS) THEN acc
    ELSE
      LET light == ls[i + 1]
          sd == acc.maps[i]
      IN  shadowMapPassFrom(i + 1, ls,
            IF ~sd.isActive \/ skipsStatic(light, sd) THEN acc
            ELSE [maps |-> [acc.maps EXCEPT ![i].hasRendered = TRUE],
                  rendered |-> acc.rendered \cup {i},
                  stats |-> renderScene(ShadowShaderOf(light.type), acc.stats)])

shadowMapPass(ls, maps, st) ==
    IF ~shaderSet["shadowMap"] \/ ~shaderSet["pointShadow"]
    THEN [maps |-> maps, rendered |-> {}, stats |-> st]
    ELSE shadowMapPassFrom(0, ls, [maps |-> maps, rendered |-> {}, stats |-> st])

resetStats == [drawCalls |-> 0, vertexCount |-> 0]

(***************************************************************************)
(* Day / night cycle of updateLights.  The sun is lit in the first 0.55 of *)
(* the cycle and the moon from 0.50 to 1.05, each with an intensity ramp   *)
(* at both ends of its window, so the pair (sun, moon) of castShadows goes *)
(* through night -> dawn -> day -> dusk -> night.                          *)
(***************************************************************************)
NextPhase(p) ==
    CASE p = "night" -> "dawn"
      [] p = "dawn" -> "day"
      [] p = "day" -> "dusk"
      [] OTHER -> "night"

SunOn(p) == p \in {"dawn", "day", "dusk"}
MoonOn(p) == p \in {"night", "dawn", "dusk"}

\* updateCelestia: a light inside its window points along its arc (one
\* vector of the arc stands for all of them), a light outside points along
\* (-1, 0, 0); both are passed through glm::normalize.
updateCelestia(on) ==
    IF on THEN normalize(<<-1, -1, -1>>) ELSE normalize(<<-1, 0, 0>>)

\* The noise of the flicker, a sum of sines of totalTime in about -1 .. 1:
\* one value for each phase of the cycle.
flickerNoise(p) ==
    CASE p = "dawn" -> 1
      [] p = "dusk" -> -1
      [] OTHER -> 0

\* updateLights: with at least two lights in the registry, updateCelestia
\* writes direction and intensity of lights[0] (lit: up to 1.0) and lights[1]
\* (lit: up to 0.5) and castShadows = intensity > 0.001f follows; then every
\* light with flicker set gets intensity = baseIntensity * (1 + noise * 0.08).
updateLights(ls, p) ==
    LET cycled ==
            IF Len(ls) >= 2
            THEN [ls EXCEPT
                    ![1].direction = updateCelestia(SunOn(p)),
                    ![2].direction = updateCelestia(MoonOn(p)),
                    ![1].intensity = IF SunOn(p) THEN 100 ELSE 0,
                    ![2].intensity = IF MoonOn(p) THEN 50 ELSE 0,
                    ![1].castShadows = (IF SunOn(p) THEN 100 ELSE 0) > 0,
                    ![2].castShadows = (IF MoonOn(p) THEN 50 ELSE 0) > 0]
            ELSE ls
    IN  [j \in 1 .. Len(cycled) |->
            IF cycled[j].flicker
            THEN [cycled[j] EXCEPT
                    !.intensity = (cycled[j].baseIntensity * (100 + 8 * flickerNoise(p))) \div 100]
            ELSE cycled[j]]

(***************************************************************************)
(* Initial states.                                                         *)
(***************************************************************************)
\* Renderer::ShadowParams as constructed.  Floats are in hundredths
\* (70 = 0.7f).
ShadowParams ==
    [shadowMapSize |-> DefaultShadowMapSize,
     cubeShadowMapSize |-> DefaultCubeShadowMapSize,
     shadowIntensity |-> 70,
     orthoSize |-> 2000,
     nearPlane |-> 50,
     farPlane |-> 5000]

\* The other parameters a preset covers, as constructed: one field of the
\* global MaterialParams, the global illumination model (LAMBERTIAN = 0), one
\* field of EdgeParams, the technique bitmask (DEPTH_BASED = 1) and the model
\* and one parameter of one material category (floorMaterial), and the model
\* of a second category (torchMaterial).
MaterialAndEdgeParams ==
    [roughness |-> 10,
     globalIlluminationModel |-> 0,
     depthThreshold |-> 10,
     edgeDetectionFlags |-> 1,
     floorModel |-> 0,
     floorRoughness |-> 10,
     torchModel |-> 0]

\* The GUI has PresetCount preset rows, slots 0 .. PresetCount - 1.
PresetCount == 5

\* The slot numbers savePreset, loadPreset and applyPreset are called with: the
\* first MaxPresetSlot + 1 slots of the GUI, which are alike, and the first
\* number beyond them.
PresetSlots == (0 .. MaxPresetSlot) \cup {PresetCount}

\* The parameter state of a freshly constructed Renderer.
DefaultState == MaterialAndEdgeParams @@ ShadowParams

\* LightManager::LightManager: a sun and three test point lights.
LightManagerInit ==
    addLight(addLight(addLight(addLight(<< >>, createDirectionalLight),
        createPointLight), createPointLight), createPointLight)

NoOp == [kind |-> "none", idx |-> 0, slots |-> {}]

InitCommon ==
    /\ lights = initializeLights(LightManagerInit)
    /\ shadowMaps = initializeShadowMapping
    /\ shadowParams = ShadowParams
    /\ params = MaterialAndEdgeParams
    \* No preset file on disk; a file is a JSON document reduced to its leaves.
    /\ presetFiles = [k \in PresetSlots |->
                          [exists |-> FALSE, root |-> [f \in {} |-> 0]]]
    /\ savedAt = [k \in PresetSlots |-> [valid |-> FALSE, state |-> DefaultState]]
    /\ uniforms = [numLights |-> 0, lights |-> << >>, shadowSamplers |-> {}]
    /\ dayPhase = "night"
    /\ stats = resetStats
    /\ pc = "idle"
    /\ shaderSet = initializeShaders(linked)
    /\ modelSet = loadModels(loaded)
    /\ incomplete = {}
    /\ allocated = {}
    /\ cleaned = {}
    /\ rendered = {}
    /\ hadRendered = {}
    /\ drawn = {}
    /\ geomDraws = 0
    /\ geomVerts = 0
    /\ failedDraws = 0
    /\ lastOp = NoOp
    /\ opsSinceFrame = 0
    /\ uiOps = 0

\* Every shader links and every model file imports.
Init ==
    /\ linked = [s \in Shaders |-> TRUE]
    /\ loaded = [m \in Models |-> TRUE]
    /\ shaderCall = [fn |-> "none"]
    /\ shaderResult = << >>
    /\ InitCommon

\* Some shader program or model file may be broken at startup.
InitEnv ==
    /\ linked \in [Shaders -> BOOLEAN]
    /\ loaded \in [Models -> BOOLEAN]
    /\ Cardinality({s \in Shaders : ~linked[s]})
         + Cardinality({m \in Models : ~loaded[m]}) <= MaxFailedAssets
    /\ shaderCall = [fn |-> "none"]
    /\ shaderResult = << >>
    /\ InitCommon

(***************************************************************************)
(* Renderer::render, one action per call it makes.  pc names the call that *)
(* runs next; the GUI and the API act between frames (pc = "idle").        *)
(***************************************************************************)
frameGhosts == <<allocated, cleaned, rendered, hadRendered, drawn, geomDraws,
                 geomVerts, failedDraws>>
startup == <<linked, shaderSet, loaded, modelSet>>
opLog == <<lastOp, opsSinceFrame, uiOps>>

\* render() entry: resetStats().
BeginFrame ==
    /\ pc = "idle"
    /\ pc' = "updateShadowMaps"
    /\ stats' = resetStats
    /\ rendered' = {}
    /\ drawn' = {}
    /\ geomDraws' = 0
    /\ geomVerts' = 0
    /\ failedDraws' = 0
    /\ hadRendered' = {i \in Slots : shadowMaps[i].hasRendered}
    /\ UNCHANGED <<lights, shadowMaps, shadowParams, dayPhase, incomplete,
                   allocated, cleaned, startup, presetVars, shaderVars, uniforms, opLog>>

\* updateShadowMaps(), with the GPU failing the allocations of the slots in fail.
Reconcile(fail) ==
    /\ pc = "updateShadowMaps"
    /\ LET r == updateShadowMaps(lights, shadowParams, shadowMaps, incomplete, fail)
       IN  /\ shadowMaps' = r.maps
           /\ allocated' = r.allocated
           /\ cleaned' = r.cleaned
           /\ incomplete' = r.incomplete
    /\ pc' = "updateLights"
    /\ UNCHANGED <<lights, shadowParams, dayPhase, stats, rendered, hadRendered,
                   drawn, geomDraws, geomVerts, failedDraws, startup, presetVars, shaderVars, uniforms, opLog>>

UpdateShadowMapsStep == Reconcile({})

FailSets == {f \in SUBSET Slots : Cardinality(f) <= MaxAllocFailures}

UpdateShadowMapsStepEnv == \E fail \in FailSets : Reconcile(fail)

\* updateLights(0.016f): the cycle stays in its phase or enters the next one.
UpdateLightsStep ==
    /\ pc = "updateLights"
    /\ \E p \in {dayPhase, NextPhase(dayPhase)} :
          /\ dayPhase' = p
          /\ lights' = updateLights(lights, p)
    /\ pc' = "shadowMapPass"
    /\ UNCHANGED <<shadowMaps, shadowParams, stats, incomplete, frameGhosts,
                   startup, presetVars, shaderVars, uniforms, opLog>>

RECURSIVE SumOver(_, _)
SumOver(S, f) ==
    IF S = {} THEN 0
    ELSE LET x == CHOOSE y \in S : TRUE IN f[x] + SumOver(S \ {x}, f)

ShadowMapPassStep ==
    /\ pc = "shadowMapPass"
    /\ LET r == shadowMapPass(lights, shadowMaps, stats)
       IN  /\ shadowMaps' = r.maps
           /\ rendered' = r.rendered
           /\ stats' = r.stats
           /\ drawn' = drawn \cup {ShadowShaderOf(lights[i + 1].type) : i \in r.rendered}
           /\ failedDraws' = failedDraws + SumOver(r.rendered,
                [i \in r.rendered |-> FailedDrawsOf(ShadowShaderOf(lights[i + 1].type))])
    /\ pc' = "geometryPass"
    /\ UNCHANGED <<lights, shadowParams, dayPhase, incomplete, allocated, cleaned,
                   hadRendered, geomDraws, geomVerts, startup, presetVars, shaderVars, uniforms, opLog>>

\* geometryPass: the scene walk with geometryShader, when that pointer is set.
geometryPass(st) == IF shaderSet["geometry"] THEN renderScene("geometry", st) ELSE st

GeometryPassStep ==
    /\ pc = "geometryPass"
    /\ stats' = geometryPass(stats)
    /\ geomDraws' = stats'.drawCalls - stats.drawCalls
    /\ geomVerts' = stats'.vertexCount - stats.vertexCount
    /\ failedDraws' = failedDraws + FailedDrawsOf("geometry")
    /\ drawn' = IF shaderSet["geometry"] THEN drawn \cup {"geometry"} ELSE drawn
    /\ pc' = "lightingPass"
    /\ UNCHANGED <<lights, shadowMaps, shadowParams, dayPhase, incomplete,
                   allocated, cleaned, rendered, hadRendered, startup, presetVars, shaderVars, uniforms, opLog>>

quadPass_mutStopsAfterFailure(shader, d) ==
    IF shaderSet[shader] /\ linked["geometry"] THEN d \cup {shader} ELSE d

\* A full-screen pass: use the program and renderQuad() when the pointer is set.
quadPass(shader, d) == IF shaderSet[shader] THEN d \cup {shader} ELSE d

\* lightingPass: with hybridCelShader set, the samplers of the active slots
\* below lightCount = min(lights.size(), MAX_SHADOW_CASTING_LIGHTS) are
\* bound, numLights = lightCount and lights[0 .. lightCount - 1] are uploaded.
lightingPass(ls, maps, u) ==
    LET lightCount == Min(Len(ls), MAX_SHADOW_CASTING_LIGHTS)
    IN  IF ~shaderSet["hybridCel"] THEN u
        ELSE [numLights |-> lightCount,
              lights |-> SubSeq(ls, 1, lightCount),
              shadowSamplers |-> {i \in 0 .. (lightCount - 1) : maps[i].isActive}]

LightingPassStep ==
    /\ pc = "lightingPass"
    /\ drawn' = quadPass("hybridCel", drawn)
    /\ uniforms' = lightingPass(lights, shadowMaps, uniforms)
    /\ pc' = "edgeDetectionPass"
    /\ UNCHANGED <<lights, shadowMaps, shadowParams, dayPhase, stats, incomplete,
                   allocated, cleaned, rendered, hadRendered, geomDraws, geomVerts,
                   failedDraws, startup, presetVars, shaderVars, opLog>>

EdgeDetectionPassStep ==
    /\ pc = "edgeDetectionPass"
    /\ drawn' = quadPass("edgeDetection", drawn)
    /\ pc' = "compositePass"
    /\ UNCHANGED <<lights, shadowMaps, shadowParams, dayPhase, stats, incomplete,
                   allocated, cleaned, rendered, hadRendered, geomDraws, geomVerts,
                   failedDraws, startup, presetVars, shaderVars, uniforms, opLog>>

\* compositePass ends the frame; the mutation log of the GUI starts afresh.
CompositePassStep ==
    /\ pc = "compositePass"
    /\ drawn' = quadPass("composite", drawn)
    /\ pc' = "idle"
    /\ lastOp' = NoOp
    /\ opsSinceFrame' = 0
    /\ allocated' = {}
    /\ cleaned' = {}
    /\ hadRendered' = {}
    /\ UNCHANGED <<lights, shadowMaps, shadowParams, dayPhase, stats, incomplete,
                   rendered, geomDraws, geomVerts, failedDraws, startup, presetVars, shaderVars, uniforms, uiOps>>

(***************************************************************************)
(* GUI (renderLightingWindow, renderShadowParamsWindow) and LightManager   *)
(* API calls, between frames.                                              *)
(***************************************************************************)
\* Slots below the light count that hold a rendered shadow map right now.
RenderedSlots ==
    {i \in Slots : i < Len(lights) /\ shadowMaps[i].isActive /\ shadowMaps[i].hasRendered}

Mutate(newLights, newParams, op) ==
    /\ pc = "idle"
    /\ uiOps < MaxUiOps
    /\ lights' = newLights
    /\ shadowParams' = newParams
    /\ lastOp' = op
    /\ opsSinceFrame' = Min(opsSinceFrame + 1, 2)
    /\ uiOps' = uiOps + 1
    /\ UNCHANGED <<shadowMaps, dayPhase, stats, pc, incomplete, frameGhosts, startup, presetVars, shaderVars, uniforms>>

\* The indices the mutations below are tried on: the sun, the moon, the first
\* torch, the last shadow slot and the last light.
EditIdx ==
    {i \in {0, 1, 2, MAX_SHADOW_CASTING_LIGHTS - 1, Len(lights) - 1} :
        0 <= i /\ i < Len(lights)}

\* "Add Point / Directional / Spot Light".
GuiAddLight ==
    \E t \in LightTypes :
        Mutate(addLight(lights, createLight(t)), shadowParams,
               [kind |-> "add", idx |-> Len(lights), slots |-> {}])

\* "Remove Light" of the light at index i.
GuiRemoveLight ==
    \E i \in EditIdx :
        Mutate(removeLight(lights, i), shadowParams,
               [kind |-> "remove", idx |-> i, slots |-> {}])

\* Checkbox "Cast Shadows".
GuiToggleCastShadows ==
    \E i \in EditIdx :
        Mutate([lights EXCEPT ![i + 1].castShadows = ~@], shadowParams,
               [kind |-> "cast", idx |-> i, slots |-> {}])

\* Combo "Type".
GuiSetType ==
    \E i \in EditIdx : \E t \in LightTypes \ {lights[i + 1].type} :
        Mutate([lights EXCEPT ![i + 1].type = t], shadowParams,
               [kind |-> "type", idx |-> i, slots |-> {}])

\* Checkbox "Static (Cache Shadows)".
GuiToggleStatic ==
    \E i \in EditIdx :
        Mutate([lights EXCEPT ![i + 1].isStatic = ~@], shadowParams,
               [kind |-> IF lights[i + 1].isStatic THEN "static_off" ELSE "static_on",
                idx |-> i, slots |-> RenderedSlots \cap {i}])

\* Combo "Dir/Spot Resolution".
GuiSetShadowMapSize ==
    \E v \in DirSizes \ {shadowParams.shadowMapSize} :
        Mutate(lights, [shadowParams EXCEPT !.shadowMapSize = v],
               [kind |-> "shadowMapSize", idx |-> 0, slots |-> RenderedSlots])

\* Combo "Point Light Resolution".
GuiSetCubeShadowMapSize ==
    \E v \in CubeSizes \ {shadowParams.cubeShadowMapSize} :
        Mutate(lights, [shadowParams EXCEPT !.cubeShadowMapSize = v],
               [kind |-> "cubeShadowMapSize", idx |-> 0, slots |-> RenderedSlots])

\* LightManager::updateLight(i, light) with a factory-made light.
ApiUpdateLight ==
    \E i \in EditIdx : \E t \in LightTypes :
        Mutate(updateLight(lights, i, createLight(t)), shadowParams,
               [kind |-> "update", idx |-> i, slots |-> {}])

\* LightManager::clearLights().
ApiClearLights ==
    Mutate(clearLights(lights), shadowParams,
           [kind |-> "clear", idx |-> 0, slots |-> {}])

\* A GUI edit of one field of one light, between frames.
FieldMutate(newLights, op) ==
    /\ pc = "idle"
    /\ uiOps < MaxFieldOps
    /\ lights' = newLights
    /\ lastOp' = op
    /\ opsSinceFrame' = Min(opsSinceFrame + 1, 2)
    /\ uiOps' = uiOps + 1
    /\ UNCHANGED <<shadowMaps, shadowParams, dayPhase, stats, pc, incomplete,
                   frameGhosts, startup, presetVars, shaderVars, uniforms>>

\* The lights whose fields are edited: the sun, the first torch and the last light.
FieldIdx == {i \in {0, 2, Len(lights) - 1} : 0 <= i /\ i < Len(lights)}

\* SliderFloat3 "Direction" (-1 .. 1), shown for every type but Point: one
\* component of the stored vector is overwritten.
GuiEditDirection ==
    \E i \in FieldIdx : \E k \in 1 .. 3 :
        /\ lights[i + 1].type # "POINT"
        /\ (~lights[i + 1].direction.unit
              \/ Dot(lights[i + 1].direction.v, lights[i + 1].direction.v) = 1)
        /\ \E c \in DirValues \ {lights[i + 1].direction.v[k]} :
              FieldMutate(
                [lights EXCEPT ![i + 1].direction =
                    [v |-> [lights[i + 1].direction.v EXCEPT ![k] = c],
                     unit |-> FALSE]],
                [kind |-> "direction", idx |-> i, slots |-> {}])

\* SliderFloat "Cut Off" (1 .. 45) of a spot light.
GuiSetCutOff ==
    \E i \in FieldIdx : \E c \in CutOffValues \ {lights[i + 1].cutOff} :
        /\ lights[i + 1].type = "SPOT"
        /\ FieldMutate([lights EXCEPT ![i + 1].cutOff = c],
                       [kind |-> "cutOff", idx |-> i, slots |-> {}])

\* SliderFloat "Outer Cut Off" (cutOff .. 45) of a spot light.
GuiSetOuterCutOff ==
    \E i \in FieldIdx : \E c \in CutOffValues \ {lights[i + 1].outerCutOff} :
        /\ lights[i + 1].type = "SPOT"
        /\ c >= lights[i + 1].cutOff
        /\ FieldMutate([lights EXCEPT ![i + 1].outerCutOff = c],
                       [kind |-> "outerCutOff", idx |-> i, slots |-> {}])

Frame ==
    \/ BeginFrame
    \/ UpdateLightsStep
    \/ ShadowMapPassStep
    \/ GeometryPassStep
    \/ LightingPassStep
    \/ EdgeDetectionPassStep
    \/ CompositePassStep

Next ==
    \/ Frame
    \/ UpdateShadowMapsStep
    \/ GuiAddLight
    \/ GuiRemoveLight
    \/ GuiToggleCastShadows
    \/ GuiSetType
    \/ GuiToggleStatic
    \/ GuiSetShadowMapSize
    \/ GuiSetCubeShadowMapSize
    \/ ApiUpdateLight
    \/ ApiClearLights

Spec == Init /\ [][Next]_vars

\* Frames only, from a startup in which assets and GPU allocations may fail.
NextEnv ==
    \/ Frame
    \/ UpdateShadowMapsStepEnv

SpecEnv == InitEnv /\ [][NextEnv]_vars

\* Frames and the GUI's edits of type, direction and spot cone.
NextLightEdit ==
    \/ Frame
    \/ UpdateShadowMapsStep
    \/ GuiAddLight
    \/ GuiSetType
    \/ GuiEditDirection
    \/ GuiSetCutOff
    \/ GuiSetOuterCutOff

SpecLightEdit == Init /\ [][NextLightEdit]_vars

(***************************************************************************)
(* The LightManager alone, driven through its four operations up to its    *)
(* capacity.  Adding point lights is free; every other call is budgeted.   *)
(***************************************************************************)
\* Indices tried by remove / update: first, middle, last, one past the end
\* and the capacity itself (the last two are out of range).
RegIdx == {0, Len(lights) \div 2, Len(lights) - 1, Len(lights), MAX_LIGHTS} \ {-1}

RegMutate(newLights, op, cost) ==
    /\ pc = "idle"
    /\ uiOps + cost <= MaxRegOps
    /\ lights' = newLights
    /\ lastOp' = op
    /\ opsSinceFrame' = Min(opsSinceFrame + 1, 2)
    /\ uiOps' = uiOps + cost
    /\ UNCHANGED <<shadowMaps, shadowParams, dayPhase, stats, pc, incomplete,
                   frameGhosts, startup, presetVars, shaderVars, uniforms>>

RegAddLight ==
    \E t \in LightTypes :
        RegMutate(addLight(lights, createLight(t)),
                  [kind |-> "add", idx |-> Len(lights), slots |-> {}],
                  IF t = "POINT" THEN 0 ELSE 1)

RegRemoveLight ==
    \E i \in RegIdx :
        RegMutate(removeLight(lights, i),
                  [kind |-> "remove", idx |-> i, slots |-> {}], 1)

RegUpdateLight ==
    \E i \in RegIdx : \E t \in LightTypes :
        RegMutate(updateLight(lights, i, createLight(t)),
                  [kind |-> "update", idx |-> i, slots |-> {}], 1)

RegClearLights ==
    RegMutate(clearLights(lights), [kind |-> "clear", idx |-> 0, slots |-> {}], 1)

NextRegistry ==
    \/ RegAddLight
    \/ RegRemoveLight
    \/ RegUpdateLight
    \/ RegClearLights

SpecRegistry == Init /\ [][NextRegistry]_vars

(***************************************************************************)
(* Presets.  A preset file is the JSON document savePreset writes, reduced *)
(* to the leaves the model keeps; each leaf carries its JSON type, and a    *)
(* leaf of the wrong type makes the conversion in loadPreset throw.         *)
(***************************************************************************)
\* The in-memory parameter state a preset is about.
parameterState == params @@ shadowParams

\* The leaves savePreset writes, in the order loadPreset reads them.
SavedKeys ==
    <<"roughness", "globalIlluminationModel", "depthThreshold",
      "edgeDetectionFlags", "shadowMapSize", "cubeShadowMapSize",
      "shadowIntensity", "floorModel", "floorRoughness", "torchModel">>

savePreset(state) ==
    [exists |-> TRUE,
     root |-> [key \in {SavedKeys[i] : i \in DOMAIN SavedKeys} |->
                  [type |-> "number", value |-> state[key]]]]

\* The body of loadPreset's try block from the i-th leaf on: a leaf the file
\* lacks is skipped, a leaf of the wrong type throws into the catch at the end
\* of the function, which leaves everything read so far applied.
RECURSIVE loadFrom(_, _, _)
loadFrom(i, root, state) ==
    IF i > Len(SavedKeys)
        THEN state
        ELSE LET key == SavedKeys[i]
             IN IF key \notin DOMAIN root
                    THEN loadFrom(i + 1, root, state)
                    ELSE IF root[key].type # "number"
                        THEN state
                        ELSE loadFrom(i + 1, root,
                                      [state EXCEPT ![key] = root[key].value])

loadPreset(file, state) ==
    IF ~file.exists THEN state ELSE loadFrom(1, file.root, state)

PresetOp(kind, k) == [kind |-> kind, idx |-> k, slots |-> {}]

\* A parameter is written: by its control in the GUI, or, for orthoSize,
\* nearPlane and farPlane, which have none, through the public member
\* Renderer::shadowParams.  The values are the resolutions of the shadow
\* window and, for every other field, its default and one other value.
SetParam ==
    /\ pc = "idle"
    /\ uiOps < MaxPresetOps
    /\ \E f \in DOMAIN parameterState :
          \E v \in (CASE f = "shadowMapSize" -> DirSizes
                     [] f = "cubeShadowMapSize" -> CubeSizes
                     [] OTHER -> {DefaultState[f], DefaultState[f] + 2})
                       \ {parameterState[f]} :
          /\ params' = [g \in DOMAIN params |-> IF g = f THEN v ELSE params[g]]
          /\ shadowParams' =
                 [g \in DOMAIN shadowParams |-> IF g = f THEN v ELSE shadowParams[g]]
    /\ lastOp' = PresetOp("setParam", 0)
    /\ uiOps' = uiOps + 1
    /\ UNCHANGED <<lights, shadowMaps, dayPhase, stats, pc, incomplete, frameGhosts,
                   opsSinceFrame, startup, presetFiles, savedAt, shaderVars, uniforms>>

\* "Save" of preset k.
GuiSavePreset(k) ==
    /\ pc = "idle"
    /\ presetFiles' = [presetFiles EXCEPT ![k] = savePreset(parameterState)]
    /\ savedAt' = [savedAt EXCEPT ![k] = [valid |-> TRUE, state |-> parameterState]]
    /\ lastOp' = PresetOp("savePreset", k)
    /\ UNCHANGED <<lights, shadowMaps, shadowParams, dayPhase, stats, pc, incomplete,
                   frameGhosts, opsSinceFrame, uiOps, startup, params, shaderVars, uniforms>>

\* "Load" of preset k.
GuiLoadPreset(k) ==
    /\ pc = "idle"
    /\ LET loaded_ == loadPreset(presetFiles[k], parameterState)
       IN /\ params' = [g \in DOMAIN params |-> loaded_[g]]
          /\ shadowParams' = [g \in DOMAIN shadowParams |-> loaded_[g]]
    /\ lastOp' = PresetOp("loadPreset", k)
    /\ UNCHANGED <<lights, shadowMaps, dayPhase, stats, pc, incomplete, frameGhosts,
                   opsSinceFrame, uiOps, startup, presetFiles, savedAt, shaderVars, uniforms>>

\* The file of preset k is edited outside the program: one of its leaves gets
\* a string where a number belongs.
EditPresetFile(k) ==
    /\ pc = "idle"
    /\ uiOps < MaxPresetOps
    /\ presetFiles[k].exists
    /\ \E key \in DOMAIN presetFiles[k].root :
          /\ presetFiles[k].root[key].type = "number"
          /\ presetFiles' = [presetFiles EXCEPT ![k].root[key] =
                                [type |-> "string", value |-> 0]]
    /\ savedAt' = [savedAt EXCEPT ![k].valid = FALSE]
    /\ lastOp' = PresetOp("editFile", k)
    /\ uiOps' = uiOps + 1
    /\ UNCHANGED <<lights, shadowMaps, shadowParams, dayPhase, stats, pc, incomplete,
                   frameGhosts, opsSinceFrame, startup, params, shaderVars, uniforms>>

\* Renderer::resetParamsToDefaults: the four parameter groups and the
\* materials on its resetMat list, which has no entry for torchMaterial.
resetParamsToDefaults(state) ==
    [f \in DOMAIN state |-> IF f = "torchModel" THEN state[f] ELSE DefaultState[f]]

\* "Reset All to Defaults".
GuiResetParams ==
    /\ pc = "idle"
    /\ LET reset == resetParamsToDefaults(parameterState)
       IN /\ params' = [g \in DOMAIN params |-> reset[g]]
          /\ shadowParams' = [g \in DOMAIN shadowParams |-> reset[g]]
    /\ lastOp' = PresetOp("resetParams", 0)
    /\ UNCHANGED <<lights, shadowMaps, dayPhase, stats, pc, incomplete, frameGhosts,
                   opsSinceFrame, uiOps, startup, presetFiles, savedAt, shaderVars, uniforms>>

\* Renderer::applyPreset(k): resetParamsToDefaults, then initializeLights.
ApiApplyPreset(k) ==
    /\ pc = "idle"
    /\ LET reset == resetParamsToDefaults(parameterState)
       IN /\ params' = [g \in DOMAIN params |-> reset[g]]
          /\ shadowParams' = [g \in DOMAIN shadowParams |-> reset[g]]
    /\ lights' = initializeLights(lights)
    /\ lastOp' = PresetOp("applyPreset", k)
    /\ UNCHANGED <<shadowMaps, dayPhase, stats, pc, incomplete, frameGhosts,
                   opsSinceFrame, uiOps, startup, presetFiles, savedAt, shaderVars, uniforms>>

\* The GUI calls savePreset and loadPreset with slots below PresetCount; the
\* three functions are public and take any int.
NextPreset ==
    \/ SetParam
    \/ GuiAddLight
    \/ GuiResetParams
    \/ \E k \in PresetSlots : GuiSavePreset(k)
    \/ \E k \in PresetSlots : GuiLoadPreset(k)
    \/ \E k \in PresetSlots : ApiApplyPreset(k)
    \/ \E k \in PresetSlots : EditPresetFile(k)

SpecPreset == Init /\ [][NextPreset]_vars

(***************************************************************************)
(* Fragment-shader functions.  GLSL floats are modelled as exact fractions *)
(* n / d with d > 0; the inputs of one invocation are drawn by the initial *)
(* state and the invocation itself is one action.                          *)
(***************************************************************************)
RECURSIVE GCD(_, _)
GCD(a, b) == IF b = 0 THEN a ELSE GCD(b, a % b)

\* The fraction n / d in lowest terms.
R(n, d) ==
    LET g == GCD(IF n < 0 THEN -n ELSE n, d)
    IN [n |-> n \div g, d |-> d \div g]
RAdd(x, y) == R(x.n * y.d + y.n * x.d, x.d * y.d)
RSub(x, y) == R(x.n * y.d - y.n * x.d, x.d * y.d)
RMul(x, y) == R(x.n * y.n, x.d * y.d)
REq(x, y) == x.n * y.d = y.n * x.d
RLe(x, y) == x.n * y.d <= y.n * x.d

\* GLSL mix(x, y, a) = x * (1 - a) + y * a.
mix_mutSwapped(x, y, a) == RAdd(RMul(y, RSub(R(1, 1), a)), RMul(x, a))
mix(x, y, a) == RAdd(RMul(x, RSub(R(1, 1), a)), RMul(y, a))

\* GLSL clamp(x, lo, hi) = min(max(x, lo), hi).
clamp(x, lo, hi) == IF RLe(x, lo) THEN lo ELSE IF RLe(hi, x) THEN hi ELSE x

\* The shadow amount before weighting: the share of the depth comparisons
\* that found an occluder (c.occluded of them), over the PCF kernel when PCF
\* is on and over one sample otherwise.
shadowSamples(c) ==
    IF ~(c.enablePCF /\ c.shadowPCFSamples > 0)
        THEN 1
        ELSE IF c.fn = "calculatePointShadow"
            THEN 4 * 4 * 4
            ELSE (c.shadowPCFSamples * 2 + 1) * (c.shadowPCFSamples * 2 + 1)

rawShadow(c) == R(c.occluded, shadowSamples(c))

calculateDirectionalSpotShadow(c) ==
    IF ~c.inside
        THEN R(1, 1)
        ELSE mix(R(1, 1), RSub(R(1, 1), rawShadow(c)),
                 RSub(R(1, 1), c.shadowIntensity))

calculatePointShadow(c) ==
    mix(R(1, 1), RSub(R(1, 1), rawShadow(c)), RSub(R(1, 1), c.shadowIntensity))

\* edge_detection.frag main, last line: the texel written to the edge buffer
\* for outline colour edgeColor (one channel of it) and edge intensity edge.
edgeFragColor(edgeColor, edge) == [rgb |-> RMul(edgeColor, edge), a |-> edge]

\* composite.frag main for one channel: the lit-scene texel and the edge texel.
compositeMain(lighting, edgeTexel, enableOutlining) ==
    IF enableOutlining THEN mix(lighting, edgeTexel.rgb, edgeTexel.a) ELSE lighting

\* One channel of a colour, and an edge intensity, in [0, 1].
Unit == {R(i, ColourLevels) : i \in 0 .. ColourLevels}

\* GLSL smoothstep(edge0, edge1, x): t = clamp((x - edge0) / (edge1 - edge0),
\* 0, 1); t * t * (3 - 2 * t).  The result is undefined when edge0 >= edge1;
\* the outcomes kept for that case are the two ends of the range.
smoothstep(edge0, edge1, x) ==
    IF RLe(edge1, edge0)
        THEN {R(0, 1), R(1, 1)}
        ELSE LET span == RSub(edge1, edge0)
                 off == RSub(x, edge0)
                 t == clamp(R(off.n * span.d, off.d * span.n), R(0, 1), R(1, 1))
             IN {RMul(RMul(t, t), RSub(R(3, 1), RMul(R(2, 1), t)))}

getEdgeIntensity(val, threshold, smoothWidth) ==
    LET edgeW == RMul(smoothWidth, R(1, 100))
    IN smoothstep(RSub(threshold, edgeW), RAdd(threshold, edgeW), val)

RAbs(x) == IF x.n < 0 THEN R(-x.n, x.d) ELSE x

\* sqrt(x * x + y * y).  Every neighbourhood drawn is constant along one axis,
\* so one of the two gradients is 0 and the root is the other's magnitude.
length2(x, y) == CASE y.n = 0 -> RAbs(x) [] x.n = 0 -> RAbs(y)

\* The 3 x 3 texels around the fragment, reduced to what the detectors read:
\* depth (with depthExponent = 1.0, "Linear/Raw"), normal, luminance of the
\* lit colour.  px[row][col], rows top to bottom, columns left to right.
depthEdgeDetection(px, c) ==
    LET depthGradX == RAbs(RSub(px[2][3].depth, px[2][1].depth))
        depthGradY == RAbs(RSub(px[1][2].depth, px[3][2].depth))
    IN getEdgeIntensity(length2(depthGradX, depthGradY), c.depthThreshold, c.smoothWidth)

normalEdgeDetection(px, c) ==
    LET normal == px[2][2].normal
        dotN == Dot(normal, px[1][2].normal)
        dotS == Dot(normal, px[3][2].normal)
        dotE == Dot(normal, px[2][3].normal)
        dotW == Dot(normal, px[2][1].normal)
        minDot == Min(Min(dotN, dotS), Min(dotE, dotW))
    IN getEdgeIntensity(R(1 - minDot, 1), c.normalThreshold, c.smoothWidth)

computeSobel(tl, tm, tr, ml, mr, bl, bm, br) ==
    LET gx == RAdd(RAdd(RSub(tr, tl), RMul(R(2, 1), RSub(mr, ml))), RSub(br, bl))
        gy == RAdd(RAdd(RSub(bl, tl), RMul(R(2, 1), RSub(bm, tm))), RSub(br, tr))
    IN length2(gx, gy)

normalSobelDetection(px, c) ==
    LET ch(r, k, i) == R(px[r][k].normal[i], 1)
        mag(i) == computeSobel(ch(1, 1, i), ch(1, 2, i), ch(1, 3, i), ch(2, 1, i),
                               ch(2, 3, i), ch(3, 1, i), ch(3, 2, i), ch(3, 3, i))
        totalSobel == RMul(RAdd(RAdd(mag(1), mag(2)), mag(3)), c.sobelScale)
    IN getEdgeIntensity(totalSobel, c.sobelThreshold, c.smoothWidth)

colorEdgeDetection(px, c) ==
    LET edgeStr == RMul(computeSobel(px[1][1].lum, px[1][2].lum, px[1][3].lum,
                                     px[2][1].lum, px[2][3].lum, px[3][1].lum,
                                     px[3][2].lum, px[3][3].lum), c.sobelScale)
    IN getEdgeIntensity(edgeStr, c.colorThreshold, c.smoothWidth)

laplacianEdgeDetection(px, c) ==
    LET d(r, k) == px[r][k].depth
        ring == RAdd(RAdd(RAdd(d(1, 2), d(3, 2)), RAdd(d(2, 3), d(2, 1))),
                     RAdd(RAdd(d(1, 1), d(1, 3)), RAdd(d(3, 1), d(3, 3))))
        laplacian == RSub(ring, RMul(R(8, 1), d(2, 2)))
    IN getEdgeIntensity(RMul(RAbs(laplacian), c.laplacianScale),
                        c.laplacianThreshold, c.smoothWidth)

\* EdgeDetectionType bits.
DEPTH_BASED == 1
NORMAL_BASED == 2
SOBEL == 4
COLOR_BASED == 8
LAPLACIAN == 16

\* edge_detection.frag main: the edge intensities it can end with, the maximum
\* of 0.0 and what each enabled technique returned.
edgeMain(c) ==
    LET px == c.px
        returned(bit) ==
            CASE bit = DEPTH_BASED -> depthEdgeDetection(px, c)
              [] bit = NORMAL_BASED -> normalEdgeDetection(px, c)
              [] bit = SOBEL -> normalSobelDetection(px, c)
              [] bit = COLOR_BASED -> colorEdgeDetection(px, c)
              [] bit = LAPLACIAN -> laplacianEdgeDetection(px, c)
        \* (edgeFlags & bit) != 0
        enabled == {bit \in {DEPTH_BASED, NORMAL_BASED, SOBEL, COLOR_BASED, LAPLACIAN} :
                        (c.edgeFlags \div bit) % 2 = 1}
        all == UNION {returned(bit) : bit \in enabled}
        runs == {f \in [enabled -> all] : \A bit \in enabled : f[bit] \in returned(bit)}
        top(f) == CHOOSE x \in {f[bit] : bit \in enabled} \cup {R(0, 1)} :
                      \A bit \in enabled : RLe(f[bit], x) /\ RLe(R(0, 1), x)
    IN {top(f) : f \in runs}

\* Texels: the G-buffer normal is the unit world normal where geometry was
\* drawn and the clear value (0, 0, 0) elsewhere.
Texels ==
    [depth : {R(1, 2), R(1, 1)},
     normal : {<<0, 0, 0>>, <<0, 0, 1>>, <<1, 0, 0>>},
     lum : {R(0, 1), R(1, 1)}]

\* A flat neighbourhood, and one with a vertical step between its middle and
\* right columns.
IsFlat(px) == \A r \in 1 .. 3 : \A k \in 1 .. 3 : px[r][k] = px[2][2]

Neighbourhoods ==
    LET t0 == [depth |-> R(1, 2), normal |-> <<0, 0, 1>>, lum |-> R(0, 1)]
    IN {[r \in 1 .. 3 |-> [k \in 1 .. 3 |-> t]] : t \in Texels}
           \cup {[r \in 1 .. 3 |-> [k \in 1 .. 3 |-> IF k = 3 THEN u ELSE t0]] :
                    u \in Texels}

\* GLSL floor, as a fraction.
floor(x) == R(x.n \div x.d, 1)

quantizeDiffuseIntensity_mutTruncate(intensity, bands) ==
    IF bands <= 1
        THEN intensity
        ELSE LET bandsFloat == R(bands, 1)
                 clamped == clamp(intensity, R(0, 1), R(1, 1))
             IN R(floor(RMul(clamped, bandsFloat)).n, bands)

quantizeDiffuseIntensity(intensity, bands) ==
    IF bands <= 1
        THEN intensity
        ELSE LET bandsFloat == R(bands, 1)
                 clamped == clamp(intensity, R(0, 1), R(1, 1))
             IN R(floor(RAdd(RMul(clamped, bandsFloat), R(1, 2))).n, bands)

\* Diffuse intensities, in hundredths: below, inside and above [0, 1], on and
\* off the band boundaries.
Intensities == {R(k, 100) : k \in {-20, 0, 9, 10, 11, 25, 30, 50, 73, 90, 100, 130}}

\* The inputs of one invocation.  The shadow tests: whether the fragment
\* projects inside the map, the PCF settings, how many depth comparisons found
\* an occluder, the "Shadow Darkness" slider (0.0 .. 1.0).  The composite: one
\* channel of the lit colour and of the outline colour, the edge intensity,
\* the outlining toggle.  The edge pass: the neighbourhood and the uniforms
\* within the ranges of their sliders (thresholds 0.001 / 0.1 / 0.01 .. 1.0,
\* Smooth Width 0.0 .. 5.0; the two scales stay at their default 1.0).  The
\* quantization: two fragments shaded with the same number of bands.
ShaderCalls ==
    {c \in [fn : {"calculateDirectionalSpotShadow", "calculatePointShadow"},
            inside : BOOLEAN, enablePCF : BOOLEAN,
            shadowPCFSamples : 0 .. MaxPCFSamples,
            occluded : 0 .. (2 * MaxPCFSamples + 1) * (2 * MaxPCFSamples + 1)
                         \cup {16, 63, 64},
            shadowIntensity : {R(i, IntensityLevels) : i \in 0 .. IntensityLevels}] :
        /\ c.occluded <= shadowSamples(c)
        /\ c.fn = "calculatePointShadow" => c.inside}
    \cup [fn : {"composite"}, lighting : Unit, edgeColor : Unit, edge : Unit,
          enableOutlining : BOOLEAN]
    \cup [fn : {"edge"},
          px : Neighbourhoods,
          edgeFlags : {0, DEPTH_BASED, NORMAL_BASED, SOBEL, COLOR_BASED, LAPLACIAN,
                       DEPTH_BASED + NORMAL_BASED + SOBEL + COLOR_BASED + LAPLACIAN},
          depthThreshold : {R(1, 200), R(1, 10)},
          normalThreshold : {R(1, 10), R(1, 2)},
          sobelThreshold : {R(1, 100), R(3, 10)},
          colorThreshold : {R(1, 100), R(1, 5)},
          laplacianThreshold : {R(1, 2)},
          sobelScale : {R(1, 1)},
          laplacianScale : {R(1, 1)},
          smoothWidth : {R(0, 1), R(1, 1), R(5, 1)}]
    \cup [fn : {"quantizeDiffuseIntensity"}, intensity : Intensities,
          intensity2 : Intensities, bands : 0 .. MaxBands]

InitShader ==
    /\ linked = [s \in Shaders |-> TRUE]
    /\ loaded = [m \in Models |-> TRUE]
    /\ shaderCall \in ShaderCalls
    /\ shaderResult = << >>
    /\ InitCommon

Invoke(fn, result) ==
    /\ shaderCall.fn = fn
    /\ shaderResult = << >>
    /\ shaderResult' = <<result>>
    /\ UNCHANGED <<lights, shadowMaps, shadowParams, dayPhase, stats, pc,
                   incomplete, frameGhosts, opLog, startup, presetVars,
                   shaderCall, uniforms>>

RunDirectionalSpotShadow ==
    Invoke("calculateDirectionalSpotShadow",
           calculateDirectionalSpotShadow(shaderCall))

RunPointShadow ==
    Invoke("calculatePointShadow", calculatePointShadow(shaderCall))

\* edgeDetectionPass then compositePass for one pixel.
RunComposite ==
    Invoke("composite",
           compositeMain(shaderCall.lighting,
                         edgeFragColor(shaderCall.edgeColor, shaderCall.edge),
                         shaderCall.enableOutlining))

RunEdge ==
    /\ shaderCall.fn = "edge"
    /\ \E edge \in edgeMain(shaderCall) : Invoke("edge", edge)

RunQuantize ==
    Invoke("quantizeDiffuseIntensity",
           [first |-> quantizeDiffuseIntensity(shaderCall.intensity, shaderCall.bands),
            second |-> quantizeDiffuseIntensity(shaderCall.intensity2, shaderCall.bands)])

NextShader ==
    \/ RunDirectionalSpotShadow
    \/ RunPointShadow
    \/ RunComposite
    \/ RunEdge
    \/ RunQuantize

SpecShader == InitShader /\ [][NextShader]_vars

(***************************************************************************)
(* Properties.                                                             *)
(***************************************************************************)
\* lightCount of updateShadowMaps and shadowMapPass.
LightCount == Min(Len(lights), MAX_SHADOW_CASTING_LIGHTS)

\* C1: when updateShadowMaps returns, every slot below min(light count, 8)
\* is active exactly when its light casts shadows and then records that
\* light's type and the resolution of that type; every slot at or above
\* min(light count, 8) is inactive.
C1_SlotMatchesLight ==
    pc = "updateLights" =>
        \A i \in Slots :
            IF i < LightCount
            THEN /\ shadowMaps[i].isActive <=> lights[i + 1].castShadows
                 /\ shadowMaps[i].isActive =>
                        /\ shadowMaps[i].type = lights[i + 1].type
                        /\ lights[i + 1].type = "POINT" =>
                              shadowMaps[i].size = shadowParams.cubeShadowMapSize
                        /\ lights[i + 1].type # "POINT" =>
                              shadowMaps[i].size = shadowParams.shadowMapSize
            ELSE ~shadowMaps[i].isActive

\* A reconciliation after a mutation that left fewer than 8 lights, one of
\* them not casting shadows, with both a cube slot and a 2D slot active.
C1_Witness ==
    /\ pc = "updateLights"
    /\ uiOps > 0
    /\ Len(lights) < MAX_SHADOW_CASTING_LIGHTS
    /\ \E i \in Slots : i < LightCount /\ ~lights[i + 1].castShadows
    /\ \E i \in Slots : shadowMaps[i].isActive /\ shadowMaps[i].type = "POINT"
    /\ \E i \in Slots : shadowMaps[i].isActive /\ shadowMaps[i].type # "POINT"
    /\ cleaned # {}

\* C2 as stated: after removeLight(i), the reconciliation that follows leaves
\* slot i inactive, whatever lights follow index i.
C2_RemovedSlotInactive ==
    (pc = "updateLights" /\ lastOp.kind = "remove" /\ lastOp.idx \in Slots) =>
        ~shadowMaps[lastOp.idx].isActive

\* C2 amended: after removeLight(i), the reconciliation that follows leaves
\* slot i inactive exactly when no light has shifted into index i or the
\* light now at index i does not cast shadows; the slot that is left
\* inactive in every case is the one of the last former index (the new count).
C2_RemovedSlotFollowsShift ==
    (pc = "updateLights" /\ lastOp.kind = "remove") =>
        /\ lastOp.idx \in Slots =>
              (~shadowMaps[lastOp.idx].isActive <=>
                  (lastOp.idx >= Len(lights) \/ ~lights[lastOp.idx + 1].castShadows))
        /\ Len(lights) \in Slots => ~shadowMaps[Len(lights)].isActive

\* The last light, which held an active slot, was removed and the slot of
\* its index has just been torn down.
C2_Witness ==
    /\ pc = "updateLights"
    /\ lastOp.kind = "remove"
    /\ lastOp.idx = Len(lights)
    /\ lastOp.idx \in cleaned
    /\ ~shadowMaps[lastOp.idx].isActive

\* C3: a static light whose slot had hasRendered set when the frame began is
\* not rendered by the shadow pass of a frame before which nothing was
\* mutated; a slot (re)allocated by the frame's reconciliation has
\* hasRendered = FALSE and is rendered by that frame's shadow pass.
C3_StaticSkipUnlessReallocated ==
    /\ pc = "updateLights" => \A i \in allocated : ~shadowMaps[i].hasRendered
    /\ pc = "geometryPass" =>
          \A i \in Slots :
              /\ (i < LightCount /\ lights[i + 1].isStatic /\ i \in hadRendered
                    /\ opsSinceFrame = 0) => i \notin rendered
              /\ i \in allocated => i \in rendered

\* After a shadow pass with no mutation since the previous frame: a static
\* light with a rendered slot was skipped and a static light whose slot
\* was allocated in this frame was rendered.
C3_Witness ==
    /\ pc = "geometryPass"
    /\ opsSinceFrame = 0
    /\ \E i \in Slots : i < LightCount /\ lights[i + 1].isStatic
                        /\ i \in hadRendered /\ i \notin rendered
    /\ \E j \in Slots : j < LightCount /\ lights[j + 1].isStatic
                        /\ j \in allocated /\ j \in rendered

\* C4 as stated: for a light of any type whose slot is active and rendered,
\* clearing isStatic or changing shadowMapSize makes the next frame's shadow
\* pass render the slot (read for a light that still holds an active slot and
\* with no other mutation before that frame).
C4_ForcedRerender ==
    (pc = "geometryPass" /\ opsSinceFrame = 1
        /\ lastOp.kind \in {"static_off", "shadowMapSize"}) =>
        \A i \in lastOp.slots : shadowMaps[i].isActive => i \in rendered

\* C4 amended: when such a mutation is the only one since the previous
\* frame and the slot is still active after reconciliation, clearing isStatic
\* forces the render; changing shadowMapSize forces it for Directional and
\* Spot lights, changing cubeShadowMapSize for Point lights; a static Point
\* light is not rendered again after a change of shadowMapSize.
C4_ForcedRerenderByType ==
    (pc = "geometryPass" /\ opsSinceFrame = 1) =>
        \A i \in lastOp.slots :
            shadowMaps[i].isActive =>
                /\ lastOp.kind = "static_off" => i \in rendered
                /\ (lastOp.kind = "shadowMapSize" /\ lights[i + 1].type # "POINT")
                      => i \in rendered
                /\ (lastOp.kind = "cubeShadowMapSize" /\ lights[i + 1].type = "POINT")
                      => i \in rendered
                /\ (lastOp.kind = "shadowMapSize" /\ lights[i + 1].type = "POINT"
                      /\ lights[i + 1].isStatic) => i \notin rendered

\* The shadow pass after a change of shadowMapSize: a rendered 2D slot was
\* rendered again, the slot of a static point light was not.
C4_Witness ==
    /\ pc = "geometryPass"
    /\ opsSinceFrame = 1
    /\ lastOp.kind = "shadowMapSize"
    /\ \E i \in lastOp.slots : /\ shadowMaps[i].isActive
                               /\ lights[i + 1].type # "POINT"
                               /\ i \in rendered
    /\ \E j \in lastOp.slots : /\ shadowMaps[j].isActive
                               /\ lights[j + 1].type = "POINT"
                               /\ lights[j + 1].isStatic
                               /\ j \notin rendered

\* C5: calling updateShadowMaps again right after it returned, with the
\* registry and the shadow parameters untouched, tears nothing down,
\* allocates nothing and leaves every slot as it is.
C5_ReconcileIdempotent ==
    pc = "updateLights" =>
        LET again == updateShadowMaps(lights, shadowParams, shadowMaps, incomplete, {})
        IN  /\ again.maps = shadowMaps
            /\ again.allocated = {}
            /\ again.cleaned = {}

\* A reconciliation that both tore down and allocated slots and left the
\* slot of a light with castShadows = FALSE inactive.
C5_Witness ==
    /\ pc = "updateLights"
    /\ allocated # {}
    /\ cleaned # {}
    /\ \E i \in Slots : i < LightCount /\ ~lights[i + 1].castShadows
                        /\ ~shadowMaps[i].isActive

\* C6: statistics are zero when the frame starts and, once the geometry pass
\* is over, count the draws and vertices of the geometry pass only.
C6_StatsCountGeometryOnly ==
    /\ pc = "updateShadowMaps" => stats = resetStats
    /\ pc \in {"lightingPass", "edgeDetectionPass", "compositePass"} =>
          /\ stats.drawCalls = geomDraws
          /\ stats.vertexCount = geomVerts

\* C7: a slot whose GPU allocation failed during reconciliation is inactive.
C7_FailedAllocationInactive ==
    \A i \in incomplete : ~shadowMaps[i].isActive

\* C8: at the end of a frame, a shader whose program failed to compile or
\* link has its pointer unset and its pass has drawn nothing with it.
C8_FailedShaderPassSkipped ==
    (pc = "idle" /\ drawn # {}) =>
        \A s \in Shaders : ~linked[s] => (~shaderSet[s] /\ s \notin drawn)

\* C9: at the end of a frame, a model whose load failed has its pointer
\* unset and no renderModel call has counted a draw for it.
C9_FailedModelSkipped ==
    (pc = "idle" /\ drawn # {}) =>
        /\ \A m \in Models : ~loaded[m] => ~modelSet[m]
        /\ failedDraws = 0

\* C10: the registry never holds more than MAX_LIGHTS lights, and addLight
\* on a registry that holds MAX_LIGHTS lights leaves it as it is.
C10_RegistryCapacity ==
    [][/\ Len(lights') <= MAX_LIGHTS
       /\ (RegAddLight /\ Len(lights) = MAX_LIGHTS) => lights' = lights]_vars

\* addLight has just been called on a registry holding MAX_LIGHTS lights.
C10_Witness ==
    /\ lastOp.kind = "add"
    /\ lastOp.idx = MAX_LIGHTS
    /\ Len(lights) = MAX_LIGHTS

\* C11: removeLight(i) with i below the count takes the count down by one,
\* leaves the lights below i in place and moves each light behind i one
\* index down; addLight below capacity puts the new light at the end and
\* leaves every stored light where it is.
C11_RemoveShiftsAddAppends ==
    [][/\ (lastOp'.kind = "remove" /\ lastOp'.idx < Len(lights)) =>
            /\ Len(lights') = Len(lights) - 1
            /\ \A j \in 0 .. (Len(lights) - 1) :
                  /\ j < lastOp'.idx => lights'[j + 1] = lights[j + 1]
                  /\ j > lastOp'.idx => lights'[j] = lights[j + 1]
       /\ (lastOp'.kind = "add" /\ Len(lights) < MAX_LIGHTS) =>
            /\ Len(lights') = Len(lights) + 1
            /\ \A j \in 1 .. Len(lights) : lights'[j] = lights[j]
            /\ lights'[Len(lights) + 1] \in {createLight(t) : t \in LightTypes}]_vars

\* A light in the middle of a registry of lights of different kinds has
\* just been removed: lights of another kind stand on both sides of the gap.
C11_Witness ==
    /\ lastOp.kind = "remove"
    /\ 0 < lastOp.idx
    /\ lastOp.idx < Len(lights)
    /\ lights[lastOp.idx] # lights[lastOp.idx + 1]
    /\ lights[1] # lights[Len(lights)]

\* C12: removeLight and updateLight with an index at or beyond the count
\* leave the count and every stored light as they are.
C12_OutOfRangeIsNoOp ==
    [][(lastOp'.kind \in {"remove", "update"} /\ lastOp'.idx >= Len(lights))
          => lights' = lights]_vars

\* updateLight has just been called with an index beyond a non-empty registry.
C12_Witness ==
    /\ lastOp.kind = "update"
    /\ lastOp.idx >= Len(lights)
    /\ Len(lights) > 0
    /\ uiOps > 0

\* C13: every light in the registry has a direction of unit length.
C13_DirectionUnitLength ==
    \A i \in 1 .. Len(lights) : LengthSq(lights[i].direction) = 1

\* C14: for every spot light, cutOff and outerCutOff are in one
\* representation, cosines or degrees, which the factory and the sliders write
\* and the shadow projection and the cone falloff read, and the inner cone is
\* inside the outer cone.
\* Either the values are cosines, which the readers take them for (acos is
\* defined on them), or they are degrees and the readers treat them as
\* degrees (the shadow projection opens twice the inner angle and a fragment
\* behind the light gets no light).
C14_SpotConeOneRepresentation ==
    \A i \in 1 .. Len(lights) :
        LET l == lights[i]
            inCosines == /\ renderSpotShadowAngle(l) # NaN
                         /\ acosDegrees(l.outerCutOff) # NaN
                         /\ acosDegrees(l.cutOff) <= acosDegrees(l.outerCutOff)
            inDegrees == /\ l.cutOff <= l.outerCutOff
                         /\ renderSpotShadowAngle(l) = 2 * l.cutOff
                         /\ spotIntensity(l, -One) = 0
        IN  l.type = "SPOT" => (inCosines \/ inDegrees)


\* C15 (as stated): for a fragment inside the shadow map, the shadow factor
\* the two shadow tests return is 1 at shadowIntensity = 0, whatever the raw
\* shadow amount, and is 1 - rawShadow at shadowIntensity = 1.
C15_ShadowIntensityBounds ==
    (/\ shaderCall.fn \in {"calculateDirectionalSpotShadow", "calculatePointShadow"}
     /\ shaderResult # << >>
     /\ shaderCall.fn = "calculateDirectionalSpotShadow" => shaderCall.inside)
    => /\ REq(shaderCall.shadowIntensity, R(0, 1))
            => REq(shaderResult[1], R(1, 1))
       /\ REq(shaderCall.shadowIntensity, R(1, 1))
            => REq(shaderResult[1], RSub(R(1, 1), rawShadow(shaderCall)))

\* C15 (amended): for a fragment inside the shadow map, the shadow factor
\* the two shadow tests return is 1 - rawShadow at shadowIntensity = 0 and
\* is 1, whatever the raw shadow amount, at shadowIntensity = 1.
C15_ShadowIntensityBoundsAsCoded ==
    (/\ shaderCall.fn \in {"calculateDirectionalSpotShadow", "calculatePointShadow"}
     /\ shaderResult # << >>
     /\ shaderCall.fn = "calculateDirectionalSpotShadow" => shaderCall.inside)
    => /\ REq(shaderCall.shadowIntensity, R(0, 1))
            => REq(shaderResult[1], RSub(R(1, 1), rawShadow(shaderCall)))
       /\ REq(shaderCall.shadowIntensity, R(1, 1))
            => REq(shaderResult[1], R(1, 1))

\* A directional/spot test inside the map, with a partly occluded PCF kernel
\* and shadowIntensity = 0, has returned.
C15_Witness ==
    /\ shaderCall.fn = "calculateDirectionalSpotShadow"
    /\ shaderResult # << >>
    /\ shaderCall.inside
    /\ shaderCall.occluded > 0
    /\ shaderCall.occluded < shadowSamples(shaderCall)
    /\ REq(shaderCall.shadowIntensity, R(0, 1))


\* C16: with outlining enabled the composite output is mix(lit, edgeColor,
\* edgeAlpha) for the outline colour and the coverage the edge pass worked
\* with; with outlining disabled it is the lit-scene colour unmodified.
C16_CompositeIsMix ==
    (shaderCall.fn = "composite" /\ shaderResult # << >>)
    => IF shaderCall.enableOutlining
           THEN REq(shaderResult[1],
                    mix(shaderCall.lighting, shaderCall.edgeColor, shaderCall.edge))
           ELSE REq(shaderResult[1], shaderCall.lighting)


\* C17: for a flat input the edge pass yields edge intensity 0 for every
\* non-empty technique bitmask and every threshold and smoothing width the
\* controls allow; with an empty bitmask it yields 0 for any input.
C17_FlatInputHasNoEdge ==
    (/\ shaderCall.fn = "edge"
     /\ shaderResult # << >>
     /\ IsFlat(shaderCall.px) \/ shaderCall.edgeFlags = 0)
    => REq(shaderResult[1], R(0, 1))


\* C18: quantizeDiffuse returns its input unchanged when bands = 1; for
\* bands N > 1 it returns k / N, k the integer in 0 .. N nearest to
\* clamp(intensity, 0, 1) * N, so 0.73 with 5 bands gives 0.8; and for the
\* same bands a larger intensity never gives a smaller result.
C18_QuantizeRoundsToBands ==
    (shaderCall.fn = "quantizeDiffuseIntensity" /\ shaderResult # << >>)
    => LET x == shaderCall.intensity
           N == shaderCall.bands
           q == shaderResult[1].first
           xc == clamp(x, R(0, 1), R(1, 1))
           off == RSub(RMul(q, R(N, 1)), RMul(xc, R(N, 1)))
       IN /\ N = 1 => q = x
          /\ N > 1 => /\ RMul(q, R(N, 1)).d = 1
                      /\ RMul(q, R(N, 1)).n \in 0 .. N
                      /\ RLe(RAbs(off), R(1, 2))
          /\ (REq(x, R(73, 100)) /\ N = 5) => REq(q, R(8, 10))
          /\ RLe(x, shaderCall.intensity2)
                => RLe(q, shaderResult[1].second)

\* quantizeDiffuse(0.73, 5) has returned, next to a fragment of intensity 0.5.
C18_Witness ==
    /\ shaderCall.fn = "quantizeDiffuseIntensity"
    /\ shaderResult # << >>
    /\ REq(shaderCall.intensity, R(73, 100))
    /\ REq(shaderCall.intensity2, R(1, 2))
    /\ shaderCall.bands = 5


\* C19: savePreset(k), then any changes to the parameters, then loadPreset(k)
\* restores exactly the parameter state that was in memory at the save, every
\* ShadowParams field included.
C19_PresetRoundTrip ==
    (lastOp.kind = "loadPreset" /\ savedAt[lastOp.idx].valid)
    => parameterState = savedAt[lastOp.idx].state

\* C20: loadPreset of a file with a malformed leaf applies every well-formed
\* leaf the file holds, those after the malformed one included; loadPreset of
\* a missing file changes no parameter.
C20_MalformedFieldSkippedAlone ==
    [][lastOp'.kind = "loadPreset"
        => LET file == presetFiles[lastOp'.idx]
           IN IF ~file.exists
                  THEN UNCHANGED <<params, shadowParams>>
                  ELSE \A key \in DOMAIN file.root :
                           file.root[key].type = "number"
                               => (params' @@ shadowParams')[key] = file.root[key].value]_vars


\* C21: after the load operation the UI triggers, the light registry holds
\* exactly the initial scene lights (sun, moon, six torches), whatever lights
\* were present before; and a saved preset holds no light data.
C21_LoadResetsLights ==
    /\ lastOp.kind = "loadPreset" => lights = initializeLights(<< >>)
    /\ \A k \in PresetSlots :
           presetFiles[k].exists => DOMAIN presetFiles[k].root \subseteq DOMAIN DefaultState

\* C22: savePreset, loadPreset and applyPreset with a slot number outside the
\* GUI's range write and read no file and change no parameter and no light.
C22_OutOfRangeSlotIsNoOp ==
    [][(/\ lastOp'.kind \in {"savePreset", "loadPreset", "applyPreset"}
        /\ lastOp'.idx \notin 0 .. (PresetCount - 1))
       => UNCHANGED <<params, shadowParams, lights, presetFiles>>]_vars

\* C30: after resetParamsToDefaults every parameter, the material of every
\* category included, is at its default, and the lights are unchanged.
C30_ResetRestoresDefaults ==
    [][lastOp'.kind = "resetParams"
       => /\ params' @@ shadowParams' = DefaultState
          /\ UNCHANGED lights]_vars

\* C23: in every frame updateLights runs first, updateShadowMaps second and
\* the shadow pass third, so that no light is written between the
\* reconciliation of a frame and the passes of that frame.
C23_LightsUpdatedBeforeReconcile ==
    [][/\ (pc = "updateLights" /\ pc' # pc) => pc' = "updateShadowMaps"
       /\ (pc = "updateShadowMaps" /\ pc' # pc) => pc' = "shadowMapPass"
       /\ pc \notin {"idle", "updateShadowMaps"} => UNCHANGED lights]_vars

\* C24: in every lighting pass, every light uploaded with castShadows = TRUE
\* has an active slot whose depth texture the pass has bound.
C24_UploadedCasterHasBoundSlot ==
    (pc = "edgeDetectionPass" /\ shaderSet["hybridCel"]) =>
        \A i \in 0 .. (uniforms.numLights - 1) :
            uniforms.lights[i + 1].castShadows =>
                (shadowMaps[i].isActive /\ i \in uniforms.shadowSamplers)

\* C25: a slot the shadow pass skips (static light, hasRendered set) holds
\* the depth rendered from the light now at its index: after removeLight(r)
\* no slot at or above r, whose light has shifted down, is skipped.
C25_SkippedSlotHoldsOwnLight ==
    (pc = "geometryPass" /\ opsSinceFrame = 1 /\ lastOp.kind = "remove") =>
        \A i \in Slots :
            (i >= lastOp.idx /\ i < LightCount /\ shadowMaps[i].isActive)
                => i \in rendered

\* C28: the lighting pass uploads every light of the registry, the ones at
\* index MAX_SHADOW_CASTING_LIGHTS and above included.
C28_EveryLightUploaded ==
    (pc = "edgeDetectionPass" /\ shaderSet["hybridCel"]) =>
        /\ uniforms.numLights = Len(lights)
        /\ uniforms.lights = lights

\* C26: an inactive slot has FBO, depthMap and depthCubemap 0 and
\* hasRendered = FALSE; an active slot has a live FBO and exactly one live
\* depth texture, the cube map exactly when its recorded type is POINT; no
\* GPU name is held by two slots; and a slot that stays active with another
\* type or size has been torn down and allocated anew in between.
C26_SlotResources ==
    /\ [](\A i \in Slots :
            LET sd == shadowMaps[i] IN
            /\ ~sd.isActive =>
                  (sd.FBO = 0 /\ sd.depthMap = 0 /\ sd.depthCubemap = 0
                     /\ ~sd.hasRendered)
            /\ sd.isActive =>
                  /\ sd.FBO # 0
                  /\ (sd.depthCubemap # 0) <=> (sd.type = "POINT")
                  /\ (sd.depthMap # 0) <=> (sd.type # "POINT")
                  /\ \A j \in Slots \ {i} :
                        shadowMaps[j].isActive =>
                            /\ shadowMaps[j].FBO # sd.FBO
                            /\ {shadowMaps[j].depthMap, shadowMaps[j].depthCubemap}
                                  \cap {sd.depthMap, sd.depthCubemap} = {0})
    /\ [][\A i \in Slots :
            (/\ shadowMaps[i].isActive
             /\ shadowMaps'[i].isActive
             /\ \/ shadowMaps'[i].size # shadowMaps[i].size
                \/ shadowMaps'[i].type # shadowMaps[i].type)
                => (i \in cleaned' /\ i \in allocated')]_vars

\* A reconciliation after a change of type has torn an active slot down
\* and allocated it anew with a 2D texture in place of the cube map, while
\* another slot is inactive.
C26_Witness ==
    /\ pc = "updateLights"
    /\ lastOp.kind = "type"
    /\ lastOp.idx \in cleaned \cap allocated
    /\ shadowMaps[lastOp.idx].depthMap # 0
    /\ \E j \in Slots : j < LightCount /\ ~shadowMaps[j].isActive

\* C27: a frame runs its passes once each, in the order shadow, geometry,
\* lighting, edge detection, composite; the lighting pass starts after the
\* geometry pass of the frame has written the G-Buffer, the edge pass after
\* the lighting pass has written the lit scene and the composite pass after
\* both; and the frame ends with every pass whose shader object exists
\* having drawn, whichever program failed to build.
C27_PassesRunOnceInOrder ==
    [][/\ pc' # pc =>
             <<pc, pc'>> \in {<<"idle", "updateShadowMaps">>,
                              <<"updateShadowMaps", "updateLights">>,
                              <<"updateLights", "shadowMapPass">>,
                              <<"shadowMapPass", "geometryPass">>,
                              <<"geometryPass", "lightingPass">>,
                              <<"lightingPass", "edgeDetectionPass">>,
                              <<"edgeDetectionPass", "compositePass">>,
                              <<"compositePass", "idle">>}
       /\ (pc = "lightingPass" /\ pc' # pc) =>
             (shaderSet["geometry"] => "geometry" \in drawn)
       /\ (pc = "edgeDetectionPass" /\ pc' # pc) =>
             \A k \in 1 .. 2 : shaderSet[MainShaders[k]] => MainShaders[k] \in drawn
       /\ (pc = "compositePass" /\ pc' # pc) =>
             \A k \in 2 .. 3 : shaderSet[MainShaders[k]] => MainShaders[k] \in drawn
       /\ (pc = "compositePass" /\ pc' = "idle") =>
             \A k \in 1 .. 4 : shaderSet[MainShaders[k]] => MainShaders[k] \in drawn'
       /\ (pc = "shadowMapPass" /\ pc' # pc) =>
             rendered' = {i \in Slots : i < LightCount /\ shadowMaps[i].isActive
                             /\ ~skipsStatic(lights[i + 1], shadowMaps[i])
                             /\ shaderSet["shadowMap"] /\ shaderSet["pointShadow"]}]_vars

\* A frame has ended in which the program of a pass before the composite pass
\* failed to build and the composite pass has drawn all the same.
C27_Witness ==
    /\ pc = "idle"
    /\ \E k \in 1 .. 3 : ~linked[MainShaders[k]]
    /\ "composite" \in drawn

\* C29: updateLights keeps the light count and, of every light, type,
\* isStatic, flicker, baseIntensity and the spot cone; of a light that is
\* neither the sun nor the moon (it flickers, or it is at index 2 or above)
\* it keeps direction and castShadows, and intensity unless flicker is set.
C29_UpdateLightsTouchesSunAndMoonOnly ==
    [][(pc = "updateLights" /\ pc' # pc) =>
          /\ Len(lights') = Len(lights)
          /\ \A j \in 1 .. Len(lights) :
                /\ [lights'[j] EXCEPT !.direction = 0, !.castShadows = 0, !.intensity = 0]
                     = [lights[j] EXCEPT !.direction = 0, !.castShadows = 0, !.intensity = 0]
                /\ (lights[j].flicker \/ j > 2) =>
                      /\ lights'[j].direction = lights[j].direction
                      /\ lights'[j].castShadows = lights[j].castShadows
                      /\ ~lights[j].flicker => lights'[j].intensity = lights[j].intensity]_vars
====
